---------------------------- MODULE Spec2Model ----------------------------
(***************************************************************************)
(* Model of the address engine of ExcelScript:                             *)
(*   - StradarioMatcher (src/associa_stradario.py): the gazetteer index    *)
(*     and the exact / fuzzy street-code lookup;                           *)
(*   - dividi_indirizzo_siatel and dividi_indirizzo_siatel_compatto        *)
(*     (src/dividi_indirizzi_helper.py): the address segmenter and its     *)
(*     compact view;                                                       *)
(*   - _compare_values, _overall_flag, _normalize_text,                    *)
(*     _strip_street_prefix and the alias table of _load_comune_resolver   *)
(*     (src/confronta_indirizzi.py);                                       *)
(*   - _build_stradario_entries (src/associa_stradario.py).                *)
(* Strings are TLA+ strings; a character is a string of length 1.          *)
(***************************************************************************)
EXTENDS Integers, Sequences, FiniteSets, TLC

VARIABLES
    entries,            \* the list handed to StradarioMatcher.__init__
    entries_by_comune,  \* self.entries_by_comune
    entries_by_exact,   \* self.entries_by_exact
    comune_key,         \* arguments of the last call of match
    via_clean,
    via_norm,
    codice,             \* first component of the value match returned
    status,             \* second component ("" before the first call)
    path,               \* which return statement of match produced it
    rows_done,          \* rows of the address table matched so far
    indirizzo,          \* argument of dividi_indirizzo_siatel
    result,             \* the dictionary it returned (esito "" before the call)
    first_match_pos,    \* its local first_match_pos at the return (-1: None)
    first_civico,       \* its local first_civico at the return ("": None)
    compatto,           \* the dictionary dividi_indirizzo_siatel_compatto returned
    value_a,            \* first argument of _compare_values
    value_b,            \* second argument of _compare_values
    resolver,           \* its keyword argument resolver
    preprocess,         \* its keyword argument preprocess ("" for None)
    text_a,             \* its local text_a at the emptiness test
    text_b,             \* its local text_b at the emptiness test
    flag,               \* the verdict it returned ("" before the first call)
    flags,              \* argument of _overall_flag
    flag_generale,      \* the aggregate it returned ("" before the first call)
    strip_value,        \* argument of _strip_street_prefix
    strip_text,         \* the string it returned
    strip_called,       \* _strip_street_prefix has returned
    default_table,      \* rows of comuni_equivalenze.csv (<<>> when the file is absent)
    extra_table,        \* rows of the CSV given by the user (<<>> when none is given)
    mapping,            \* the alias table of _load_comune_resolver
    loaded,             \* _load_comune_resolver has returned
    stradario_rows,     \* rows of the reference table of _build_stradario_entries
    stradario_resolver, \* its argument resolver
    stradario_entries,  \* the list it returned
    build_outcome,      \* "" before the call, then "returned" or "SystemExit"
    norm_value,         \* argument of _normalize_text
    norm_text,          \* the string it returned
    normalize_called    \* _normalize_text has returned

vars == <<entries, entries_by_comune, entries_by_exact, comune_key, via_clean,
          via_norm, codice, status, path, rows_done, indirizzo, result, first_match_pos,
          first_civico, compatto, value_a, value_b, resolver, preprocess, text_a, text_b,
          flag, flags, flag_generale, strip_value, strip_text, strip_called, default_table, extra_table, mapping, loaded,
          stradario_rows, stradario_resolver, stradario_entries, build_outcome, norm_value, norm_text,
          normalize_called>>

matcherVars == <<entries, entries_by_comune, entries_by_exact, comune_key,
                 via_clean, via_norm, codice, status, path, rows_done>>

segVars == <<indirizzo, result, first_match_pos, first_civico, compatto>>

cmpVars == <<value_a, value_b, resolver, preprocess, text_a, text_b, flag, flags,
             flag_generale, strip_value, strip_text, strip_called>>

mapVars == <<default_table, extra_table, mapping, loaded>>

buildVars == <<stradario_rows, stradario_resolver, stradario_entries, build_outcome>>

normVars == <<norm_value, norm_text, normalize_called>>

(***************************************************************************)
(* Bounds of the model.                                                    *)
(***************************************************************************)
MaxEntries == 3        \* longest gazetteer handed to the matcher
MaxDetails == 2        \* most detail items after the house number of an address
MaxTextLen == 3        \* longest string handed to _normalize_text
MaxRows == 2           \* most rows of an equivalence table
MaxAddressRows == 2    \* most rows of the address table handed to _assign_codice_via
MaxTokens == 3         \* most words of a street cell handed to _strip_street_prefix

(***************************************************************************)
(* Characters.                                                             *)
(***************************************************************************)
Ch(s, i) == SubSeq(s, i, i)

UpperLetters == <<"A","B","C","D","E","F","G","H","I","J","K","L","M",
                  "N","O","P","Q","R","S","T","U","V","W","X","Y","Z">>
LowerLetters == <<"a","b","c","d","e","f","g","h","i","j","k","l","m",
                  "n","o","p","q","r","s","t","u","v","w","x","y","z">>
Digits == {"0","1","2","3","4","5","6","7","8","9"}

UpperSet == {UpperLetters[i] : i \in 1..26}
LowerSet == {LowerLetters[i] : i \in 1..26}

\* letters outside a-z: "é" has an upper case outside A-Z, "ß" has a two-letter one
ToUpper ==
    [c \in LowerSet \cup {"é", "ß"} |->
        IF c = "é" THEN "É"
        ELSE IF c = "ß" THEN "SS"
        ELSE UpperLetters[CHOOSE i \in 1..26 : LowerLetters[i] = c]]
ToLower ==
    [c \in UpperSet \cup {"É", "ß"} |->
        IF c = "É" THEN "é"
        ELSE IF c = "ß" THEN "ss"
        ELSE LowerLetters[CHOOSE i \in 1..26 : UpperLetters[i] = c]]

RECURSIVE MapChars(_, _)
MapChars(f, s) ==
    IF s = "" THEN ""
    ELSE (IF Head(s) \in DOMAIN f THEN f[Head(s)] ELSE Head(s)) \o MapChars(f, Tail(s))

\* str.upper() and str.casefold() on the characters of the model
upper(s) == MapChars(ToUpper, s)
casefold(s) == MapChars(ToLower, s)

RECURSIVE FilterChars(_, _)
FilterChars(keep, s) ==
    IF s = "" THEN ""
    ELSE (IF Head(s) \in keep THEN Head(s) ELSE "") \o FilterChars(keep, Tail(s))

\* mutant: only the first character outside A-Z0-9 is removed (count=1)
RECURSIVE _normalize_text_SubOnce(_)
_normalize_text_SubOnce(value) ==
    IF value = "" THEN ""
    ELSE IF Head(upper(value)) \in UpperSet \cup Digits
    THEN Head(upper(value)) \o _normalize_text_SubOnce(Tail(value))
    ELSE Tail(upper(value))

\* NORMALIZE_RE.sub("", value.upper()) with NORMALIZE_RE = [^A-Z0-9]
_normalize_text(value) == FilterChars(UpperSet \cup Digits, upper(value))

(***************************************************************************)
(* difflib.SequenceMatcher(None, a, b).ratio(), no junk: the longest       *)
(* matching block (earliest in a, then earliest in b), then the same on    *)
(* the pieces to its left and to its right.  The ratio 2*M/T is kept as    *)
(* the pair <<2*M, T>>; both strings empty give 1.0.                       *)
(***************************************************************************)
RECURSIVE CommonLen(_, _, _, _, _, _)
CommonLen(a, b, i, j, ahi, bhi) ==
    IF i > ahi \/ j > bhi \/ Ch(a, i) # Ch(b, j) THEN 0
    ELSE 1 + CommonLen(a, b, i + 1, j + 1, ahi, bhi)

find_longest_match(a, b, alo, ahi, blo, bhi) ==
    LET cands == (alo..ahi) \X (blo..bhi)
        sz == [p \in cands |-> CommonLen(a, b, p[1], p[2], ahi, bhi)]
        Before(p, q) == p[1] < q[1] \/ (p[1] = q[1] /\ p[2] <= q[2])
    IN  IF cands = {} THEN <<alo, blo, 0>>
        ELSE LET best == CHOOSE p \in cands :
                        \A q \in cands :
                            sz[q] < sz[p] \/ (sz[q] = sz[p] /\ Before(p, q))
             IN  <<best[1], best[2], sz[best]>>

RECURSIVE matching_size(_, _, _, _, _, _)
matching_size(a, b, alo, ahi, blo, bhi) ==
    LET m == find_longest_match(a, b, alo, ahi, blo, bhi)
    IN  IF m[3] = 0 THEN 0
        ELSE m[3]
             + matching_size(a, b, alo, m[1] - 1, blo, m[2] - 1)
             + matching_size(a, b, m[1] + m[3], ahi, m[2] + m[3], bhi)

ratio(a, b) ==
    IF Len(a) + Len(b) = 0 THEN <<1, 1>>
    ELSE <<2 * matching_size(a, b, 1, Len(a), 1, Len(b)), Len(a) + Len(b)>>

(***************************************************************************)
(* Thresholds of the matcher, in hundredths.                               *)
(***************************************************************************)
SIMILARITY_THRESHOLD == 88
FUZZY_TIE_MARGIN == 2

\* ratio > best_ratio + FUZZY_TIE_MARGIN, on the pairs <<numerator, denominator>>
ExceedsByMargin(r, best) ==
    100 * r[1] * best[2] > 100 * best[1] * r[2] + FUZZY_TIE_MARGIN * r[2] * best[2]

\* abs(ratio - best_ratio) <= FUZZY_TIE_MARGIN
Abs(x) == IF x < 0 THEN -x ELSE x
WithinMargin(r, best) ==
    100 * Abs(r[1] * best[2] - best[1] * r[2]) <= FUZZY_TIE_MARGIN * r[2] * best[2]

\* best_ratio < SIMILARITY_THRESHOLD
BelowThreshold(r) == 100 * r[1] < SIMILARITY_THRESHOLD * r[2]

(***************************************************************************)
(* The reference rows the gazetteers of the model are drawn from, as       *)
(* _build_stradario_entries leaves them: via_clean is upper case with the  *)
(* street prefix stripped (empty for a row that was only a prefix) and     *)
(* via_norm = _normalize_text(via_clean).                                  *)
(***************************************************************************)
StradarioEntry(c, code, street) ==
    [comune_key |-> c, codice_via |-> code, via_clean |-> street,
     via_norm |-> _normalize_text(street)]

EntryPool ==
    { StradarioEntry("ROMA", "001", "MAZZINI"),
      StradarioEntry("ROMA", "002", "MAZZINI C"),
      StradarioEntry("ROMA", "003", "MAZZINI G"),
      StradarioEntry("ROMA", "004", "MAZZINI G B"),
      StradarioEntry("ROMA", "003", "MAZZINI-G"),
      StradarioEntry("ROMA", "006", "MAZZINI-G"),
      StradarioEntry("ROMA", "007", ""),
      StradarioEntry("MILANO", "008", "MAZZINI G") }

\* the rows of the address table: municipality key and cleaned street
ComuneInputs == {"", "ROMA", "MILANO", "NAPOLI"}
StreetInputs == {"", "-", "MAZZINI", "MAZZINI G", "MAZZINI-G", "GARIBALDI"}

Streets == {e.via_clean : e \in EntryPool} \cup StreetInputs

\* the ratios of the streets of the model, computed once
RECURSIVE MkRatioTable(_)
MkRatioTable(S) ==
    IF S = {} THEN <<>>
    ELSE LET p == CHOOSE q \in S : TRUE
         IN  (p :> ratio(casefold(p[1]), casefold(p[2]))) @@ MkRatioTable(S \ {p})

RatioTable == MkRatioTable(Streets \X Streets)

SequenceMatcherRatio(a, b) ==
    IF <<a, b>> \in DOMAIN RatioTable THEN RatioTable[<<a, b>>]
    ELSE ratio(casefold(a), casefold(b))

Injective(f) == \A i, j \in DOMAIN f : i # j => f[i] # f[j]

Gazetteers ==
    {g \in UNION {[1..n -> EntryPool] : n \in 1..MaxEntries} : Injective(g)}

(***************************************************************************)
(* StradarioMatcher.__init__                                               *)
(***************************************************************************)
EmptyDict == [k \in {} |-> <<>>]

\* d.setdefault(k, []).append(e)
SetDefaultAppend(d, k, e) ==
    [x \in DOMAIN d \cup {k} |->
        IF x = k THEN (IF k \in DOMAIN d THEN Append(d[k], e) ELSE <<e>>)
        ELSE d[x]]

RECURSIVE BuildByComune(_, _)
BuildByComune(es, d) ==
    IF es = <<>> THEN d
    ELSE BuildByComune(Tail(es), SetDefaultAppend(d, Head(es).comune_key, Head(es)))

RECURSIVE BuildByExact(_, _)
BuildByExact(es, d) ==
    IF es = <<>> THEN d
    ELSE BuildByExact(Tail(es),
            IF Head(es).via_norm # ""
            THEN SetDefaultAppend(d, <<Head(es).comune_key, Head(es).via_norm>>, Head(es))
            ELSE d)

\* dict.get(k): the empty list stands for None (both are falsy in match)
DictGet(d, k) == IF k \in DOMAIN d THEN d[k] ELSE <<>>

\* mutant: the lookup is a setdefault(k, []), which records a missing key
DictAfterGet_SetDefault(d, k) ==
    [x \in DOMAIN d \cup {k} |-> IF x \in DOMAIN d THEN d[x] ELSE <<>>]

\* the dictionary once d.get(k) has returned: get records nothing
DictAfterGet(d, k) == d

(***************************************************************************)
(* StradarioMatcher.match                                                  *)
(***************************************************************************)
Ret(code, st, p) == [codice |-> code, status |-> st, path |-> p]

\* one iteration of the loop over candidates
FuzzyStep(acc, entry, street) ==
    IF entry.via_clean = "" THEN acc
    ELSE LET r == SequenceMatcherRatio(entry.via_clean, street)
         IN  IF ExceedsByMargin(r, acc.best_ratio)
             THEN [best_ratio |-> r, best_entries |-> <<entry>>]
             ELSE IF WithinMargin(r, acc.best_ratio)
             THEN [acc EXCEPT !.best_entries = Append(@, entry)]
             ELSE acc

RECURSIVE FuzzyLoop(_, _, _)
FuzzyLoop(candidates, street, acc) ==
    IF candidates = <<>> THEN acc
    ELSE FuzzyLoop(Tail(candidates), street, FuzzyStep(acc, Head(candidates), street))

\* mutant: the first of several tied candidates is reported with its code
FuzzyResult_FirstOfTied(acc) ==
    IF BelowThreshold(acc.best_ratio) THEN Ret("", "via_non_trovata", "fuzzy")
    ELSE IF Len(acc.best_entries) = 1
    THEN Ret(acc.best_entries[1].codice_via, "fuzzy", "fuzzy")
    ELSE Ret(acc.best_entries[1].codice_via, "via_ambigua", "fuzzy")

\* mutant: the first of the best candidates is returned even when several are tied
FuzzyResult_PickFirst(acc) ==
    IF BelowThreshold(acc.best_ratio) THEN Ret("", "via_non_trovata", "fuzzy")
    ELSE Ret(acc.best_entries[1].codice_via, "fuzzy", "fuzzy")

FuzzyResult(acc) ==
    IF BelowThreshold(acc.best_ratio) THEN Ret("", "via_non_trovata", "fuzzy")
    ELSE IF Len(acc.best_entries) = 1
    THEN Ret(acc.best_entries[1].codice_via, "fuzzy", "fuzzy")
    ELSE Ret("", "via_ambigua", "fuzzy")

\* mutant: duplicates that all carry one code are reported as an exact hit
ExactResult_SameCode(exact_entries) ==
    IF \A i \in DOMAIN exact_entries :
           exact_entries[i].codice_via = exact_entries[1].codice_via
    THEN Ret(exact_entries[1].codice_via, "exact", "exact")
    ELSE Ret("", "via_ambigua", "exact")

ExactResult(exact_entries) ==
    IF Len(exact_entries) = 1 THEN Ret(exact_entries[1].codice_via, "exact", "exact")
    ELSE Ret("", "via_ambigua", "exact")

\* mutant: the exact lookup is keyed on the cleaned street, not the normalized one
match_KeyOnClean(by_comune, by_exact, ck, street, norm) ==
    IF ck = "" THEN Ret("", "comune_assente", "guard")
    ELSE LET candidates == DictGet(by_comune, ck)
         IN  IF candidates = <<>> THEN Ret("", "comune_non_trovato", "guard")
             ELSE IF norm = "" THEN Ret("", "via_assente", "guard")
             ELSE LET exact_entries == DictGet(by_exact, <<ck, street>>)
                  IN  IF exact_entries # <<>> THEN ExactResult(exact_entries)
                      ELSE FuzzyResult(FuzzyLoop(candidates, street,
                               [best_ratio |-> <<0, 1>>, best_entries |-> <<>>]))

\* mutant: the empty street is tested before the municipality is looked up
match_StreetFirst(by_comune, by_exact, ck, street, norm) ==
    IF ck = "" THEN Ret("", "comune_assente", "guard")
    ELSE IF norm = "" THEN Ret("", "via_assente", "guard")
    ELSE LET candidates == DictGet(by_comune, ck)
         IN  IF candidates = <<>> THEN Ret("", "comune_non_trovato", "guard")
             ELSE LET exact_entries == DictGet(by_exact, <<ck, norm>>)
                  IN  IF exact_entries # <<>> THEN ExactResult(exact_entries)
                      ELSE FuzzyResult(FuzzyLoop(candidates, street,
                               [best_ratio |-> <<0, 1>>, best_entries |-> <<>>]))

match(by_comune, by_exact, ck, street, norm) ==
    IF ck = "" THEN Ret("", "comune_assente", "guard")
    ELSE LET candidates == DictGet(by_comune, ck)
         IN  IF candidates = <<>> THEN Ret("", "comune_non_trovato", "guard")
             ELSE IF norm = "" THEN Ret("", "via_assente", "guard")
             ELSE LET exact_entries == DictGet(by_exact, <<ck, norm>>)
                  IN  IF exact_entries # <<>> THEN ExactResult(exact_entries)
                      ELSE FuzzyResult(FuzzyLoop(candidates, street,
                               [best_ratio |-> <<0, 1>>, best_entries |-> <<>>]))

(***************************************************************************)
(* Regular expressions of dividi_indirizzi_helper.py, on the characters of *)
(* the model.  Positions are 1-based here; a match position the code keeps *)
(* (first_match_pos) is kept 0-based, as Python counts it.                 *)
(***************************************************************************)
\* s[a-1:b] of Python, for any a and b
Slice(s, a, b) ==
    LET lo == IF a < 1 THEN 1 ELSE a
        hi == IF b > Len(s) THEN Len(s) ELSE b
    IN  IF lo > hi THEN "" ELSE SubSeq(s, lo, hi)

At(s, i) == Slice(s, i, i)

WordChars == UpperSet \cup LowerSet \cup Digits \cup {"_", "º", "é", "É", "ß"}    \* \w
SpaceChars == {" "}                                                 \* \s
AlnumUpper == UpperSet \cup Digits                                  \* [A-Z0-9]
DegreeMarks == {".", "°", "º"}                                      \* \.|[°º]

\* \b just before the character at index i
Boundary(s, i) == (At(s, i - 1) \in WordChars) # (At(s, i) \in WordChars)

StartsAt(s, i, lit) == i >= 1 /\ Slice(s, i, i + Len(lit) - 1) = lit

\* the first index >= i whose character is not in S
RECURSIVE SkipSet(_, _, _)
SkipSet(s, i, S) == IF At(s, i) \in S THEN SkipSet(s, i + 1, S) ELSE i

\* the first index >= i whose character is in S, or the end of the string
RECURSIVE SkipUntil(_, _, _)
SkipUntil(s, i, S) ==
    IF i > Len(s) \/ At(s, i) \in S THEN i ELSE SkipUntil(s, i + 1, S)

Min(S) == CHOOSE x \in S : \A y \in S : x <= y
Max(S) == CHOOSE x \in S : \A y \in S : x >= y

\* str.strip()
RECURSIVE LStrip(_)
LStrip(s) == IF s # "" /\ Head(s) \in SpaceChars THEN LStrip(Tail(s)) ELSE s
RECURSIVE RStrip(_)
RStrip(s) ==
    IF s # "" /\ At(s, Len(s)) \in SpaceChars THEN RStrip(Slice(s, 1, Len(s) - 1))
    ELSE s
Strip(s) == RStrip(LStrip(s))

From(s, i) == Slice(s, i, Len(s))

\* re.sub of every maximal run of characters of S by one space
RECURSIVE SubRuns(_, _)
SubRuns(s, S) ==
    IF s = "" THEN ""
    ELSE IF Head(s) \in S THEN " " \o SubRuns(From(s, SkipSet(s, 1, S)), S)
    ELSE Head(s) \o SubRuns(Tail(s), S)

SEPARATORS_RE_sub(s) == SubRuns(s, {",", ".", ";"})       \* [,\.;]+  -> " "
_clean_spaces(text) == Strip(SubRuns(text, SpaceChars))   \* \s+ -> " ", strip

MONTHS ==
    {"GENNAIO", "FEBBRAIO", "MARZO", "APRILE", "MAGGIO", "GIUGNO",
     "LUGLIO", "AGOSTO", "SETTEMBRE", "OTTOBRE", "NOVEMBRE", "DICEMBRE"}

\* ROAD_ACRONYM_RE matches at i
RoadAcronymAt(s, i) ==
    /\ Boundary(s, i)
    /\ At(s, i) = "S"
    /\ \/ LET j == IF At(s, i + 1) = "." THEN i + 2 ELSE i + 1
              k == SkipSet(s, j, SpaceChars)
          IN  At(s, k) \in {"S", "P", "R"} /\ Boundary(s, k + 1)
       \/ At(s, i + 1) = "." /\ At(s, i + 2) \in {"S", "P", "R"} /\ At(s, i + 3) = "."

ROAD_ACRONYM_RE_search(s) == \E i \in 1..Len(s) : RoadAcronymAt(s, i)

\* KM_RE = \bKM\b|\bKM\.?\d
KM_RE_search(s) ==
    \E i \in 1..Len(s) :
        /\ Boundary(s, i)
        /\ StartsAt(s, i, "KM")
        /\ \/ Boundary(s, i + 2)
           \/ At(s, i + 2) \in Digits
           \/ At(s, i + 2) = "." /\ At(s, i + 3) \in Digits

\* \bN(?:\.|[°º])?\s+\d+ at i: the index of the first digit, 0 when no match
NMarkerAt(s, i) ==
    IF Boundary(s, i) /\ At(s, i) = "N"
    THEN LET j == IF At(s, i + 1) \in DegreeMarks THEN i + 2 ELSE i + 1
             k == SkipSet(s, j, SpaceChars)
         IN  IF k > j /\ At(s, k) \in Digits THEN k ELSE 0
    ELSE 0

N_MARKER_RE_search(s) == \E i \in 1..Len(s) : NMarkerAt(s, i) # 0

\* N_EXPLICIT_RE.search(s).start(1), 0-based; -1 when there is no match
N_EXPLICIT_RE_start1(s) ==
    LET hits == {i \in 1..Len(s) : NMarkerAt(s, i) # 0}
    IN  IF hits = {} THEN -1 ELSE NMarkerAt(s, Min(hits)) - 1

\* SNC_RE = \bSNC\b|\bS\.?N\b at i
SncAt(s, i) ==
    /\ Boundary(s, i)
    /\ \/ StartsAt(s, i, "SNC") /\ Boundary(s, i + 3)
       \/ StartsAt(s, i, "SN") /\ Boundary(s, i + 2)
       \/ StartsAt(s, i, "S.N") /\ Boundary(s, i + 3)

\* SNC_RE.search(s).start(), 0-based; -1 when there is no match
SNC_RE_start(s) ==
    LET hits == {i \in 1..Len(s) : SncAt(s, i)}
    IN  IF hits = {} THEN -1 ELSE Min(hits) - 1

\* \b(\d{1,2})\s+(MONTH)\b at i: the index after the month name, 0 when no match
MonthAt(s, i) ==
    IF Boundary(s, i) /\ At(s, i) \in Digits
    THEN LET j == IF At(s, i + 1) \in Digits THEN i + 2 ELSE i + 1
             k == SkipSet(s, j, SpaceChars)
             ms == {m \in MONTHS : StartsAt(s, k, m) /\ Boundary(s, k + Len(m))}
         IN  IF k > j /\ ms # {} THEN k + Len(CHOOSE m \in ms : TRUE) ELSE 0
    ELSE 0

\* month_match.end(), 0-based; -1 when there is no match
MonthEnd(s) ==
    LET hits == {i \in 1..Len(s) : MonthAt(s, i) # 0}
    IN  IF hits = {} THEN -1 ELSE MonthAt(s, Min(hits)) - 1

\* GENERIC_NUMBER_RE.search(s).start(), 0-based; -1 when there is no match
GENERIC_NUMBER_RE_start(s) ==
    LET hits == {i \in 1..Len(s) : Boundary(s, i) /\ At(s, i) \in Digits}
    IN  IF hits = {} THEN -1 ELSE Min(hits) - 1

\* the end (exclusive) of \d+[A-Z]? matched at index i
NumberHeadEnd(s, i) ==
    LET j == SkipSet(s, i, Digits)
    IN  IF At(s, j) \in UpperSet THEN j + 1 ELSE j

\* CIVICO_HEAD_RE = ^(\d+[A-Z]?)(.*)$ : <<group 1, group 2>>, <<>> when no match
CIVICO_HEAD_RE_match(s) ==
    IF At(s, 1) \in Digits
    THEN LET e == NumberHeadEnd(s, 1) IN <<Slice(s, 1, e - 1), From(s, e)>>
    ELSE <<>>

\* SUFFIX_RE = ^\s*[-\/]\s*([A-Z0-9]+)(.*)$ : <<group 1, group 2>>, <<>> when no match
SUFFIX_RE_match(s) ==
    LET j == SkipSet(s, 1, SpaceChars)
        k == SkipSet(s, j + 1, SpaceChars)
        e == SkipSet(s, k, AlnumUpper)
    IN  IF At(s, j) \in {"-", "/"} /\ e > k THEN <<Slice(s, k, e - 1), From(s, e)>>
        ELSE <<>>

\* TRAILING_N_RE = \b(?:N\.?|N[°º])\b\s*$ at i, the marker being n characters long
TrailingNAt(s, i, n) ==
    /\ Boundary(s, i)
    /\ At(s, i) = "N"
    /\ n = 2 => At(s, i + 1) \in DegreeMarks
    /\ Boundary(s, i + n)
    /\ SkipSet(s, i + n, SpaceChars) = Len(s) + 1

\* TRAILING_N_RE.sub("", s)
TRAILING_N_RE_sub(s) ==
    LET hits == {i \in 1..Len(s) : \E n \in {1, 2} : TrailingNAt(s, i, n)}
    IN  IF hits = {} THEN s ELSE Slice(s, 1, Min(hits) - 1)

\* re.sub(r"^SNC\b\s*", "", s)
StripLeadingSNC(s) ==
    IF StartsAt(s, 1, "SNC") /\ Boundary(s, 4) THEN From(s, SkipSet(s, 4, SpaceChars))
    ELSE s

(***************************************************************************)
(* The detail markers: each pattern, tried at index i, gives               *)
(* <<start of the value, end of the match (exclusive)>> or <<>>.           *)
(***************************************************************************)
\* ([^\s,;]+)\b from index k: the end (exclusive) of the longest run of such
\* characters that ends on a word boundary, 0 when there is none
GroupTwoEnd(s, k) ==
    LET e == SkipUntil(s, k, SpaceChars \cup {",", ";"})
        ends == {m \in (k + 1)..e : Boundary(s, m)}
    IN  IF ends = {} THEN 0 ELSE Max(ends)

ValueFrom(s, j, needSpace) ==
    LET k == SkipSet(s, j, SpaceChars)
        m == GroupTwoEnd(s, k)
    IN  IF (needSpace => k > j) /\ m # 0 THEN <<k, m>> ELSE <<>>

\* SCALA_PATTERN = \b(SC(?:ALA)?\.?\s+)([^\s,;]+)\b
SCALA_PATTERN(s, i) ==
    IF Boundary(s, i) /\ StartsAt(s, i, "SC")
    THEN LET j1 == IF StartsAt(s, i + 2, "ALA") THEN i + 5 ELSE i + 2
             j2 == IF At(s, j1) = "." THEN j1 + 1 ELSE j1
         IN  ValueFrom(s, j2, TRUE)
    ELSE <<>>

\* INTERNO_PATTERN = \b(INT(?:\.|ERNO)?\s+)([^\s,;]+)\b
INTERNO_PATTERN(s, i) ==
    IF Boundary(s, i) /\ StartsAt(s, i, "INT")
    THEN LET j == IF At(s, i + 3) = "." THEN i + 4
                  ELSE IF StartsAt(s, i + 3, "ERNO") THEN i + 7
                  ELSE i + 3
         IN  ValueFrom(s, j, TRUE)
    ELSE <<>>

\* PIANO_PATTERN = \b(PI(?:\.|ANO)?|P\.)\s*([^\s,;]+)\b : the alternatives in
\* the order the regex engine tries them
PIANO_PATTERN(s, i) ==
    IF ~ Boundary(s, i) THEN <<>>
    ELSE LET long == IF StartsAt(s, i, "PI.") THEN ValueFrom(s, i + 3, FALSE)
                     ELSE IF StartsAt(s, i, "PIANO") THEN ValueFrom(s, i + 5, FALSE)
                     ELSE <<>>
             short == IF StartsAt(s, i, "PI") THEN ValueFrom(s, i + 2, FALSE) ELSE <<>>
             dotted == IF StartsAt(s, i, "P.") THEN ValueFrom(s, i + 2, FALSE) ELSE <<>>
         IN  IF long # <<>> THEN long
             ELSE IF short # <<>> THEN short
             ELSE dotted

\* the compiled pattern handed to consume, tried at index i
pattern_at(pattern, s, i) ==
    CASE pattern = "SCALA_PATTERN" -> SCALA_PATTERN(s, i)
      [] pattern = "INTERNO_PATTERN" -> INTERNO_PATTERN(s, i)
      [] pattern = "PIANO_PATTERN" -> PIANO_PATTERN(s, i)

\* the leftmost index of a set of match positions, 0 when search finds none
search_start(hits) == IF hits = {} THEN 0 ELSE Min(hits)

\* value and new_source of consume for the match m that starts at index i
consume_match(source, i, m) ==
    <<Strip(Slice(source, m[1], m[2] - 1)),
      Strip(Slice(source, 1, i - 1) \o From(source, m[2]))>>

\* consume once pattern.search has answered: i = 0 is "if not match"
consume_at(pattern, source, i) ==
    IF i = 0 THEN <<"", source>>
    ELSE consume_match(source, i, pattern_at(pattern, source, i))

\* consume(pattern, source): <<value, new_source>>
consume(pattern, source) ==
    consume_at(pattern, source,
               search_start({i \in 1..Len(source) : pattern_at(pattern, source, i) # <<>>}))

\* SCALA_SHORT_PATTERN = \bSC\b\s*([A-Z0-9\-]+), tried when no scala was found
consume_scala_short(source) ==
    LET Hit(i) ==
            /\ Boundary(source, i) /\ StartsAt(source, i, "SC") /\ Boundary(source, i + 2)
            /\ LET k == SkipSet(source, i + 2, SpaceChars)
               IN  SkipSet(source, k, AlnumUpper \cup {"-"}) > k
        hits == {i \in 1..Len(source) : Hit(i)}
    IN  IF hits = {} THEN <<"", source>>
        ELSE LET i == Min(hits)
                 k == SkipSet(source, i + 2, SpaceChars)
                 e == SkipSet(source, k, AlnumUpper \cup {"-"})
             IN  <<Strip(Slice(source, k, e - 1)),
                   Strip(Slice(source, 1, i - 1) \o From(source, e))>>

(***************************************************************************)
(* dividi_indirizzo_siatel                                                 *)
(***************************************************************************)
Res(ind, civ, sc, int, pi, est, es) ==
    [indirizzo |-> ind, civico |-> civ, scala |-> sc, interno |-> int,
     piano |-> pi, estensione |-> est, esito |-> es]

FALLITA == "separazione fallita"
PARZIALE == "separazione parziale"
CORRETTO == "correttamente separato"

\* norm, as computed from the argument
Normalized(ind) == _clean_spaces(SEPARATORS_RE_sub(upper(Strip(ind))))

\* mutant: the guard no longer looks for a number marker or a placeholder
RouteGuard_AcronymAndKm(norm) == ROAD_ACRONYM_RE_search(norm) /\ KM_RE_search(norm)

\* the route guard
RouteGuard(norm) ==
    /\ ROAD_ACRONYM_RE_search(norm)
    /\ KM_RE_search(norm)
    /\ ~ N_MARKER_RE_search(norm)
    /\ SNC_RE_start(norm) = -1

\* the date strategy: the position after the month plus the offset of the
\* first number in the stripped tail; -1 when it does not apply
DatePos(norm) ==
    LET after_month_pos == MonthEnd(norm)
    IN  IF after_month_pos = -1 THEN -1
        ELSE LET tail == Strip(From(norm, after_month_pos + 1))
                 t == GENERIC_NUMBER_RE_start(tail)
             IN  IF tail = "" \/ t = -1 THEN -1 ELSE after_month_pos + t

Located(pos, civ) == [first_match_pos |-> pos, first_civico |-> civ]

\* group(1) of the number matched at the 0-based position pos
NumberAt(s, pos) == Slice(s, pos + 1, NumberHeadEnd(s, pos + 1) - 1)

\* mutant: the strategy that matches earliest in the string wins
locate_Earliest(norm) ==
    LET cands == {N_EXPLICIT_RE_start1(norm), SNC_RE_start(norm), DatePos(norm),
                  GENERIC_NUMBER_RE_start(norm)} \ {-1}
    IN  IF cands = {} THEN Located(-1, "")
        ELSE IF Min(cands) = SNC_RE_start(norm) THEN Located(Min(cands), "SNC")
        ELSE Located(Min(cands), NumberAt(norm, Min(cands)))

\* group(1) of the number the date strategy finds in the stripped tail
tail_number(tail) == NumberAt(tail, GENERIC_NUMBER_RE_start(tail))

\* the four strategies in the order of the if chain, given where each of
\* them matches: explicit marker, SNC, date then number, first number
locate_first(norm, explicit, snc, date, generic) ==
    IF explicit # -1 THEN Located(explicit, NumberAt(norm, explicit))
    ELSE IF snc # -1 THEN Located(snc, "SNC")
    ELSE IF date # -1
    THEN Located(date, tail_number(Strip(From(norm, MonthEnd(norm) + 1))))
    ELSE IF generic # -1 THEN Located(generic, NumberAt(norm, generic))
    ELSE Located(-1, "")

\* first_match_pos and first_civico after the four strategies
locate(norm) ==
    locate_first(norm, N_EXPLICIT_RE_start1(norm), SNC_RE_start(norm), DatePos(norm),
                 GENERIC_NUMBER_RE_start(norm))

\* mutant: leftover text no longer downgrades the outcome
classify_IgnoreLeftover(ind, civ, est, first_civ) ==
    IF ind # "" /\ civ # ""
    THEN IF first_civ = "SNC" THEN PARZIALE ELSE CORRETTO
    ELSE FALLITA

\* the outcome, from the fields as filled in and first_civico
classify(ind, civ, est, first_civ) ==
    IF ind # "" /\ civ # ""
    THEN IF first_civ = "SNC" THEN PARZIALE
         ELSE IF est # "" THEN PARZIALE
         ELSE CORRETTO
    ELSE FALLITA

\* estensione from the suffix and the leftover text
estensione_of(suffix, leftover) ==
    IF leftover # ""
    THEN (IF suffix # "" THEN Strip(suffix \o " " \o leftover) ELSE leftover)
    ELSE suffix

\* the returned row and its esito once every field is filled in
build_result(before, civico_base, scala, interno, piano, estensione, first_civ, orig) ==
    Res(IF before = "" THEN orig ELSE before,
        civico_base, scala, interno, piano, estensione,
        classify(before, civico_base, estensione, first_civ))

\* after consume(PIANO_PATTERN, rest) returned pi: the leftover text
details_leftover(before, civico_base, suffix, scala, interno, pi, first_civ, orig) ==
    build_result(before, civico_base, scala, interno, pi[1],
                 estensione_of(suffix, _clean_spaces(SEPARATORS_RE_sub(pi[2]))),
                 first_civ, orig)

\* after consume(INTERNO_PATTERN, rest) returned nt: the floor
details_piano(before, civico_base, suffix, scala, nt, first_civ, orig) ==
    details_leftover(before, civico_base, suffix, scala, nt[1],
                     consume("PIANO_PATTERN", nt[2]), first_civ, orig)

\* after the staircase was consumed with result sc: the unit
details_interno(before, civico_base, suffix, sc, first_civ, orig) ==
    details_piano(before, civico_base, suffix, sc[1],
                  consume("INTERNO_PATTERN", sc[2]), first_civ, orig)

\* "if not scala": the short staircase pattern is tried on what is left
scala_or_short(s1) == IF s1[1] = "" THEN consume_scala_short(s1[2]) ELSE s1

\* the staircase, unit and floor markers and the leftover text
details(before, civico_base, suffix, rest, first_civ, orig) ==
    details_interno(before, civico_base, suffix,
                    scala_or_short(consume("SCALA_PATTERN", rest)), first_civ, orig)

\* <<civico_base, suffix, rest>> given the answer of SUFFIX_RE.match
split_suffix(civico_base, rest, suffix_match) ==
    IF suffix_match # <<>>
    THEN <<civico_base, Strip(suffix_match[1]), Strip(suffix_match[2])>>
    ELSE <<civico_base, "", rest>>

\* the suffix is looked for only in a non-empty rest
split_rest(civico_base, rest) ==
    split_suffix(civico_base, rest, IF rest # "" THEN SUFFIX_RE_match(rest) ELSE <<>>)

\* <<civico_base, suffix, rest>> given the answer of CIVICO_HEAD_RE.match;
\* <<>> when the text does not start with a house number
split_civico(civico_match) ==
    IF civico_match = <<>> THEN <<>>
    ELSE split_rest(Strip(civico_match[1]), Strip(civico_match[2]))

\* mutant: the SNC branch leaves the house number empty
split_parts_PlaceholderDropped(after, first_civ) ==
    IF first_civ = "SNC" THEN <<"", "", Strip(StripLeadingSNC(after))>>
    ELSE split_civico(CIVICO_HEAD_RE_match(after))

\* the SNC branch removes the marker, the other branch reads the number
split_parts(after, first_civ) ==
    IF first_civ = "SNC" THEN <<"SNC", "", Strip(StripLeadingSNC(after))>>
    ELSE split_civico(CIVICO_HEAD_RE_match(after))

\* the early partial return, or the details of the parts
split_details(before, after, parts, first_civ, orig) ==
    IF parts = <<>> THEN Res(before, Strip(after), "", "", "", "", PARZIALE)
    ELSE details(before, parts[1], parts[2], parts[3], first_civ, orig)

\* the text after the split position, once stripped
split_text(before, after, first_civ, orig) ==
    split_details(before, after, split_parts(after, first_civ), first_civ, orig)

\* the text after the split position
split_after(norm, loc, before, orig) ==
    split_text(before, Strip(From(norm, loc.first_match_pos + 1)), loc.first_civico, orig)

\* mutant: an empty before is segmented like any other
segment_before_Unchecked(orig, norm, loc, before) == split_after(norm, loc, before, orig)

\* "if not before"
segment_before(orig, norm, loc, before) ==
    IF before = "" THEN Res(orig, "", "", "", "", "", FALLITA)
    ELSE split_after(norm, loc, before, orig)

\* "if first_match_pos is None", then before is cut and cleaned
segment_located(orig, norm, loc) ==
    IF loc.first_match_pos = -1 THEN Res(orig, "", "", "", "", "", FALLITA)
    ELSE segment_before(orig, norm, loc,
                        Strip(TRAILING_N_RE_sub(Strip(Slice(norm, 1, loc.first_match_pos)))))

\* the empty-address guard and the route guard
segment_normalized(orig, norm) ==
    IF orig = "" THEN Res("", "", "", "", "", "", FALLITA)
    ELSE IF RouteGuard(norm) THEN Res(orig, "", "", "", "", "", FALLITA)
    ELSE segment_located(orig, norm, locate(norm))

dividi_indirizzo_siatel(ind) == segment_normalized(Strip(ind), Normalized(ind))

(***************************************************************************)
(* Cell values of a table (confronta_indirizzi.py).  A cell is a missing   *)
(* value, a string, or a float kept as its integer digits and its          *)
(* fractional digits ("0" for a whole number).                             *)
(***************************************************************************)
NaN == <<"nan">>
Str(s) == <<"str", s>>
Float(int_digits, frac_digits) == <<"float", int_digits, frac_digits>>

NBSP == " "             \* U+00A0, white space for str.strip()
ZeroWidth == "¤"        \* stands for U+200B..U+FEFF: not white space, not alphanumeric
PyWhitespace == {" ", NBSP}
EXTRA_STRIP_CHARS == {NBSP, ZeroWidth}

RECURSIVE LStripChars(_, _)
LStripChars(s, S) == IF s # "" /\ Head(s) \in S THEN LStripChars(Tail(s), S) ELSE s
RECURSIVE RStripChars(_, _)
RStripChars(s, S) ==
    IF s # "" /\ At(s, Len(s)) \in S THEN RStripChars(Slice(s, 1, Len(s) - 1), S)
    ELSE s
\* str.strip() with PyWhitespace, str.strip(chars) otherwise
StripChars(s, S) == RStripChars(LStripChars(s, S), S)

_safe_string(value) ==
    CASE value[1] = "nan" -> ""
      [] value[1] = "float" ->
            IF value[3] = "0" THEN value[2] ELSE value[2] \o "." \o value[3]
      [] OTHER -> StripChars(StripChars(value[2], PyWhitespace), EXTRA_STRIP_CHARS)

(***************************************************************************)
(* _strip_street_prefix                                                    *)
(***************************************************************************)
STREET_PREFIXES ==
    {"VIA", "V", "VIALE", "VLE", "PIAZZA", "PZ", "PZZA", "PIAZZALE", "PLE", "LARGO",
     "LGO", "CORSO", "CRS", "STRADA", "STR", "SDA", "CONTRADA", "CTR", "LOCALITA",
     "LOC", "BORGO", "BGO", "VICOLO", "VICO", "SALITA", "SAL", "PIAZZETTA", "PZTTA",
     "TRAVERSA", "TRAV"}

\* re.sub of every character of S by the character c
RECURSIVE ReplaceChars(_, _, _)
ReplaceChars(s, S, c) ==
    IF s = "" THEN ""
    ELSE (IF Head(s) \in S THEN c ELSE Head(s)) \o ReplaceChars(Tail(s), S, c)

\* str.replace(c, "") for every c of S
RECURSIVE RemoveChars(_, _)
RemoveChars(s, S) ==
    IF s = "" THEN ""
    ELSE (IF Head(s) \in S THEN "" ELSE Head(s)) \o RemoveChars(Tail(s), S)

\* str.split(): the maximal runs of characters that are not white space
RECURSIVE Split(_)
RECURSIVE SplitFrom(_, _)
SplitToken(s, i, j) == <<Slice(s, i, j - 1)>> \o Split(From(s, j))
SplitFrom(s, i) ==
    IF i > Len(s) THEN <<>> ELSE SplitToken(s, i, SkipUntil(s, i, PyWhitespace))
Split(s) == SplitFrom(s, SkipSet(s, 1, PyWhitespace))

\* " ".join(tokens)
RECURSIVE Join(_)
Join(tokens) ==
    IF tokens = <<>> THEN ""
    ELSE IF Len(tokens) = 1 THEN Head(tokens)
    ELSE Head(tokens) \o " " \o Join(Tail(tokens))

\* the while loop: the head token is dropped while it is a street prefix
RECURSIVE DropPrefixes(_)
DropPrefixes(tokens) ==
    IF tokens # <<>> /\ RemoveChars(Head(tokens), {".", "'"}) \in STREET_PREFIXES
    THEN DropPrefixes(Tail(tokens))
    ELSE tokens

strip_prefix_of(text) ==
    IF text = "" THEN ""
    ELSE Join(DropPrefixes(Split(ReplaceChars(upper(text), {".", ","}, " "))))

_strip_street_prefix(value) == strip_prefix_of(_safe_string(value))

(***************************************************************************)
(* ComuneResolver.canonical and _compare_values.  A resolver is            *)
(* [present |-> FALSE] for None, else it carries its lookup.               *)
(***************************************************************************)
NoResolver == [present |-> FALSE, lookup |-> EmptyDict]
ComuneResolver(lookup) == [present |-> TRUE, lookup |-> lookup]

canonical_normalized(lookup, normalized) ==
    IF normalized = "" THEN ""
    ELSE IF normalized \in DOMAIN lookup THEN lookup[normalized]
    ELSE normalized

canonical(lookup, text) == canonical_normalized(lookup, _normalize_text(text))

similarity_threshold == 88      \* the default 0.88, in hundredths

\* the sanitized value after "if preprocess:"
preprocessed(pre, text) ==
    IF pre = "_strip_street_prefix" THEN _strip_street_prefix(Str(text)) ELSE text

processed(value, pre) == preprocessed(pre, _safe_string(value))

\* norm_a, norm_b
norm_of(res, text) ==
    IF res.present THEN canonical(res.lookup, text) ELSE _normalize_text(text)

\* mutant: the threshold is exclusive
ratio_reaches_Strict(r) == 100 * r[1] > similarity_threshold * r[2]

\* ratio >= similarity_threshold on the pair <<numerator, denominator>>
ratio_reaches(r) == 100 * r[1] >= similarity_threshold * r[2]

\* the last three statements: the ratio of the case-folded texts
compare_ratio(ta, tb) ==
    IF ta # "" /\ tb # "" /\ ratio_reaches(ratio(casefold(ta), casefold(tb)))
    THEN "simile"
    ELSE "diverso"

\* the test on norm_a and norm_b
compare_norms(ta, tb, norm_a, norm_b) ==
    IF norm_a # "" /\ norm_a = norm_b THEN "uguale" ELSE compare_ratio(ta, tb)

\* mutant: the verdict names the side that is empty
compare_texts_NamesEmptySide(ta, tb, res) ==
    IF ta = "" /\ tb = "" THEN "vuoti"
    ELSE IF ta = "" THEN "solo_file_1"
    ELSE IF tb = "" THEN "solo_file_2"
    ELSE IF casefold(ta) = casefold(tb) THEN "uguale"
    ELSE compare_norms(ta, tb, norm_of(res, ta), norm_of(res, tb))

\* from the emptiness tests on
compare_texts(ta, tb, res) ==
    IF ta = "" /\ tb = "" THEN "vuoti"
    ELSE IF ta = "" THEN "solo_file_2"
    ELSE IF tb = "" THEN "solo_file_1"
    ELSE IF casefold(ta) = casefold(tb) THEN "uguale"
    ELSE compare_norms(ta, tb, norm_of(res, ta), norm_of(res, tb))

_compare_values(va, vb, res, pre) ==
    compare_texts(processed(va, pre), processed(vb, pre), res)

(***************************************************************************)
(* _read_comune_mapping and _load_comune_resolver.  A table is the         *)
(* sequence of its rows <<alias cell, canonical cell>>; a file that is     *)
(* absent or has no row is the empty sequence.  A dict is a function.      *)
(***************************************************************************)
\* d[k] = v
DictSet(d, k, v) == [x \in DOMAIN d \cup {k} |-> IF x = k THEN v ELSE d[x]]

\* d.setdefault(k, v)
DictSetDefault(d, k, v) == IF k \in DOMAIN d THEN d ELSE DictSet(d, k, v)

\* d.update(e)
DictUpdate(d, e) ==
    [x \in DOMAIN d \cup DOMAIN e |-> IF x \in DOMAIN e THEN e[x] ELSE d[x]]

\* the body of the loop, from "if not alias_norm or not canonical_norm"
read_row(m, alias_norm, canonical_norm) ==
    IF alias_norm = "" \/ canonical_norm = "" THEN m
    ELSE DictSetDefault(DictSet(m, alias_norm, canonical_norm),
                        canonical_norm, canonical_norm)

\* alias_norm / canonical_norm of a cell
cell_norm(cell) == _normalize_text(_safe_string(cell))

RECURSIVE read_rows(_, _)
read_rows(rows, m) ==
    IF rows = <<>> THEN m
    ELSE read_rows(Tail(rows),
                   read_row(m, cell_norm(Head(rows)[1]), cell_norm(Head(rows)[2])))

_read_comune_mapping(rows) == read_rows(rows, EmptyDict)

\* the dict mapping after the loop over candidate_paths
merged_mapping(default, extra) ==
    DictUpdate(DictUpdate(EmptyDict, _read_comune_mapping(default)),
               _read_comune_mapping(extra))

resolver_of(m) == IF m = EmptyDict THEN NoResolver ELSE ComuneResolver(m)

_load_comune_resolver(default, extra) == resolver_of(merged_mapping(default, extra))

(***************************************************************************)
(* _build_stradario_entries.  A reference row is <<DESCRIZIONE_COMUNE,     *)
(* TOPONIMO, DESCRIZIONE_VIA, CODICE_VIA>>; the result is                  *)
(* [outcome, entries], outcome "SystemExit" when the function raises.      *)
(***************************************************************************)
_canonical_comune(cell, res) ==
    IF _safe_string(cell) = "" THEN "" ELSE norm_of(res, _safe_string(cell))

\* " ".join(value for value in [toponimo, via_desc] if value).strip()
via_text_of(toponimo, via_desc) ==
    StripChars(IF toponimo = "" THEN via_desc
               ELSE IF via_desc = "" THEN toponimo
               ELSE toponimo \o " " \o via_desc,
               PyWhitespace)

\* the body of the loop, from the first "continue"
build_row(es, ck, code, via_text) ==
    IF ck = "" \/ code = "" THEN es
    ELSE IF via_text = "" THEN es
    ELSE Append(es, StradarioEntry(ck, code, _strip_street_prefix(Str(via_text))))

RECURSIVE build_rows(_, _, _)
build_rows(rows, res, es) ==
    IF rows = <<>> THEN es
    ELSE build_rows(Tail(rows), res,
                    build_row(es, _canonical_comune(Head(rows)[1], res),
                              _safe_string(Head(rows)[4]),
                              via_text_of(_safe_string(Head(rows)[2]),
                                          _safe_string(Head(rows)[3]))))

\* "if not entries"
build_result_of(es) ==
    IF es = <<>> THEN [outcome |-> "SystemExit", entries |-> <<>>]
    ELSE [outcome |-> "returned", entries |-> es]

_build_stradario_entries(rows, res) ==
    IF rows = <<>> THEN [outcome |-> "SystemExit", entries |-> <<>>]
    ELSE build_result_of(build_rows(rows, res, <<>>))

(***************************************************************************)
(* _overall_flag over a tuple of verdicts                                  *)
(***************************************************************************)
\* mutant: a similar field is looked for before a different one
_overall_flag_SimileFirst(fs) ==
    IF \A i \in DOMAIN fs : fs[i] \in {"uguale", "vuoti"} THEN "coincidenza"
    ELSE IF \E i \in DOMAIN fs : fs[i] = "simile" THEN "simile"
    ELSE IF \E i \in DOMAIN fs : fs[i] = "diverso" THEN "differenza"
    ELSE IF \E i \in DOMAIN fs : StartsAt(fs[i], 1, "solo_file") THEN "incompleto"
    ELSE "parziale"

\* mutant: only the verdict of a value missing in the second file counts
StartsWithSoloFile_FirstOnly(f) == f = "solo_file_1"

\* flag.startswith("solo_file")
StartsWithSoloFile(f) == StartsAt(f, 1, "solo_file")

_overall_flag(fs) ==
    IF \A i \in DOMAIN fs : fs[i] \in {"uguale", "vuoti"} THEN "coincidenza"
    ELSE IF \E i \in DOMAIN fs : fs[i] = "diverso" THEN "differenza"
    ELSE IF \E i \in DOMAIN fs : fs[i] = "simile" THEN "simile"
    ELSE IF \E i \in DOMAIN fs : StartsWithSoloFile(fs[i]) THEN "incompleto"
    ELSE "parziale"

(***************************************************************************)
(* dividi_indirizzo_siatel_compatto, from the dictionary base that         *)
(* dividi_indirizzo_siatel returned.                                       *)
(***************************************************************************)
Compact(ind, civ, spec, es) ==
    [indirizzo_diviso |-> ind, civico_diviso |-> civ, specifica_civico_diviso |-> spec,
     esito |-> es]

\* "if scala: pieces.append(f"SC {scala}")", for the stripped field
piece(marker, field) == IF field # "" THEN <<marker \o " " \o field>> ELSE <<>>

\* "if estensione: pieces.append(estensione)"
piece_estensione(field) == IF field # "" THEN <<field>> ELSE <<>>

\* mutant: the floor is appended before the unit
specifica_FloorFirst(base) ==
    Strip(Join(piece("SC", Strip(base.scala)) \o piece("PI", Strip(base.piano))
               \o piece("INT", Strip(base.interno))
               \o piece_estensione(Strip(base.estensione))))

\* " ".join(pieces).strip()
specifica(base) ==
    Strip(Join(piece("SC", Strip(base.scala)) \o piece("INT", Strip(base.interno))
               \o piece("PI", Strip(base.piano))
               \o piece_estensione(Strip(base.estensione))))

\* the dictionary returned
compatto_of(base) ==
    Compact(Strip(base.indirizzo), Strip(base.civico), specifica(base),
            IF Strip(base.esito) # "" THEN Strip(base.esito) ELSE FALLITA)

dividi_indirizzo_siatel_compatto(ind) == compatto_of(dividi_indirizzo_siatel(ind))

(***************************************************************************)
(* The matcher as a state machine: a gazetteer is indexed once, then rows  *)
(* are matched one after the other (_assign_codice_via).                   *)
(***************************************************************************)
SegIdle ==
    /\ indirizzo = ""
    /\ result = [indirizzo |-> "", civico |-> "", scala |-> "", interno |-> "",
                 piano |-> "", estensione |-> "", esito |-> ""]
    /\ first_match_pos = -1
    /\ first_civico = ""
    /\ compatto = Compact("", "", "", "")

CmpIdle ==
    /\ value_a = NaN
    /\ value_b = NaN
    /\ resolver = NoResolver
    /\ preprocess = ""
    /\ text_a = ""
    /\ text_b = ""
    /\ flag = ""
    /\ flags = <<>>
    /\ flag_generale = ""
    /\ strip_value = NaN
    /\ strip_text = ""
    /\ strip_called = FALSE

MapIdle ==
    /\ default_table = <<>>
    /\ extra_table = <<>>
    /\ mapping = EmptyDict
    /\ loaded = FALSE

BuildIdle ==
    /\ stradario_rows = <<>>
    /\ stradario_resolver = NoResolver
    /\ stradario_entries = <<>>
    /\ build_outcome = ""

NormIdle ==
    /\ norm_value = ""
    /\ norm_text = ""
    /\ normalize_called = FALSE

Init ==
    /\ entries \in Gazetteers
    /\ entries_by_comune = BuildByComune(entries, EmptyDict)
    /\ entries_by_exact = BuildByExact(entries, EmptyDict)
    /\ comune_key = ""
    /\ via_clean = ""
    /\ via_norm = ""
    /\ codice = ""
    /\ status = ""
    /\ path = ""
    /\ rows_done = 0
    /\ SegIdle
    /\ CmpIdle
    /\ MapIdle
    /\ BuildIdle
    /\ NormIdle

\* compute_row: one row of the address table
Match(ck, street) ==
    LET norm == IF street # "" THEN _normalize_text(street) ELSE ""
        r == match(entries_by_comune, entries_by_exact, ck, street, norm)
    IN  /\ rows_done < MaxAddressRows
        /\ rows_done' = rows_done + 1
        /\ comune_key' = ck
        /\ via_clean' = street
        /\ via_norm' = norm
        /\ codice' = r.codice
        /\ status' = r.status
        /\ path' = r.path
        /\ entries_by_comune' =
              IF ck # "" THEN DictAfterGet(entries_by_comune, ck) ELSE entries_by_comune
        /\ entries_by_exact' =
              IF r.path # "guard" THEN DictAfterGet(entries_by_exact, <<ck, norm>>)
              ELSE entries_by_exact
        /\ UNCHANGED entries
        /\ UNCHANGED <<segVars, cmpVars, mapVars, buildVars, normVars>>

Next == \E ck \in ComuneInputs, street \in StreetInputs : Match(ck, street)

Spec == Init /\ [][Next]_vars

(***************************************************************************)
(* Properties of StradarioMatcher.match.  They are stated on the list of   *)
(* entries itself, not on the two dictionaries match reads.                *)
(***************************************************************************)
Called == status # ""

\* the entries of the requested municipality that take part in the fuzzy scan
FuzzyCandidates ==
    {i \in DOMAIN entries :
        entries[i].comune_key = comune_key /\ entries[i].via_clean # ""}

RatioOfEntry(i) == SequenceMatcherRatio(entries[i].via_clean, via_clean)

\* r1 <= r2 and r2 - r1 <= 0.02, r >= 0.88, on the pairs <<numerator, denominator>>
RatLeq(r1, r2) == r1[1] * r2[2] <= r2[1] * r1[2]
RatLess(r1, r2) == r1[1] * r2[2] < r2[1] * r1[2]
AtLeastThreshold(r) == 100 * r[1] >= SIMILARITY_THRESHOLD * r[2]

IsHighest(i) == \A j \in FuzzyCandidates : RatLeq(RatioOfEntry(j), RatioOfEntry(i))

\* the candidates whose ratio lies within the tie margin of the highest ratio
TiedWithHighest ==
    {i \in FuzzyCandidates :
        \E h \in FuzzyCandidates :
            IsHighest(h) /\ WithinMargin(RatioOfEntry(i), RatioOfEntry(h))}

SomeAtThreshold == \E i \in FuzzyCandidates : AtLeastThreshold(RatioOfEntry(i))

ExactHits ==
    {i \in DOMAIN entries :
        entries[i].comune_key = comune_key /\ entries[i].via_norm = via_norm}

ComuneKnown == \E i \in DOMAIN entries : entries[i].comune_key = comune_key

\* C1: match never silently picks a winner among tied candidates: a
\* (code, "fuzzy") result is never returned while another candidate's ratio
\* lies within the tie margin of the returned entry's ratio.
C1_NoSilentWinner ==
    status = "fuzzy" =>
        \E i \in FuzzyCandidates :
            /\ entries[i].codice_via = codice
            /\ \A j \in FuzzyCandidates \ {i} :
                  ~ WithinMargin(RatioOfEntry(j), RatioOfEntry(i))

\* C1, as stated on the candidates: on the fuzzy path, two or more candidates
\* within the tie margin of the highest ratio, that ratio being >= 0.88,
\* give ("", "via_ambigua").
C1_TiedGiveAmbiguous ==
    (path = "fuzzy" /\ Cardinality(TiedWithHighest) >= 2 /\ SomeAtThreshold)
        => (codice = "" /\ status = "via_ambigua")

\* C2: on the fuzzy path the status is "via_non_trovata" exactly when the
\* maximum ratio over the candidates is below 0.88.
C2_NotFoundIffMaxBelow ==
    path = "fuzzy" => (status = "via_non_trovata" <=> ~ SomeAtThreshold)

\* C3: exactly one entry with the input's (comune_key, via_norm), via_norm
\* non-empty: match returns that entry's code with status "exact", whatever
\* the ratios of the other entries.
C3_ExactOutranksFuzzy ==
    (Called /\ via_norm # "" /\ comune_key # "" /\ Cardinality(ExactHits) = 1) =>
        /\ status = "exact"
        /\ \A i \in ExactHits : codice = entries[i].codice_via

\* the exact hit is outscored on the fuzzy measure by another entry of the
\* municipality, and is still the one returned
C3_Witness ==
    /\ status = "exact"
    /\ Cardinality(ExactHits) = 1
    /\ \E i \in ExactHits, j \in FuzzyCandidates :
          /\ j # i
          /\ RatLess(RatioOfEntry(i), RatioOfEntry(j))
          /\ AtLeastThreshold(RatioOfEntry(j))

\* C4: the missing-input conditions are checked in a fixed order (empty
\* municipality, unknown municipality, empty street), and none of the three
\* attempts the exact or the fuzzy lookup.
C4_GuardOrder ==
    Called =>
        /\ comune_key = "" => (status = "comune_assente" /\ path = "guard")
        /\ (comune_key # "" /\ ~ ComuneKnown)
              => (status = "comune_non_trovato" /\ path = "guard")
        /\ (comune_key # "" /\ ComuneKnown /\ via_norm = "")
              => (status = "via_assente" /\ path = "guard")
        /\ status \in {"comune_assente", "comune_non_trovato", "via_assente"}
              => (codice = "" /\ path = "guard")

\* an empty street under an unknown municipality
C4_Witness ==
    /\ comune_key # "" /\ ~ ComuneKnown /\ via_norm = ""
    /\ status = "comune_non_trovato"

Statuses ==
    {"comune_assente", "comune_non_trovato", "via_assente", "exact", "fuzzy",
     "via_ambigua", "via_non_trovata"}

\* C5: every call of match returns one of the seven statuses, with an empty
\* code unless the status is "exact" or "fuzzy".
C5_StatusAndCode ==
    Called =>
        /\ status \in Statuses
        /\ status \notin {"exact", "fuzzy"} => codice = ""

\* the fuzzy scan ends on several tied candidates and reports no code
C5_Witness ==
    /\ path = "fuzzy" /\ status = "via_ambigua" /\ codice = ""
    /\ Cardinality(FuzzyCandidates) >= 2

\* C6: more than one entry with the input's (comune_key, via_norm) gives
\* ("", "via_ambigua") from the exact lookup, without the fuzzy scan, also
\* when all the duplicates carry the same code.
C6_MultiHitAmbiguous ==
    (Called /\ comune_key # "" /\ via_norm # "" /\ Cardinality(ExactHits) > 1) =>
        (codice = "" /\ status = "via_ambigua" /\ path = "exact")

\* two duplicates of the street that carry one and the same code
C6_Witness ==
    /\ status = "via_ambigua" /\ path = "exact"
    /\ \E i, j \in ExactHits :
          i # j /\ \A k \in ExactHits : entries[k].codice_via = entries[i].codice_via

(***************************************************************************)
(* The segmenter applied to the rows of an address table.  An address of   *)
(* the model is a street part, a house-number part and up to MaxDetails    *)
(* detail items.                                                           *)
(***************************************************************************)
SegHeads ==
    {"", "VIA ROMA", "Via Roma,", "VIA 25 APRILE", "VIA ROMA N", "SS 16 KM", "s.p. 3 Km"}
SegCivics ==
    {"", " 12", " 3A", " 12-B", " 12/3 ", " SNC", " SN", " N 12", " N. 7",
     " -12", " X-12", "/12", ", 12"}
SegDetails == {" SC A", " INT 3", " PIANO 2", " P. 2", " SC-B", " XX", " N 5"}

RECURSIVE DetailTails(_)
DetailTails(n) ==
    IF n = 0 THEN {""}
    ELSE DetailTails(n - 1) \cup {t \o d : t \in DetailTails(n - 1), d \in SegDetails}

Addresses == {h \o c \o t : h \in SegHeads, c \in SegCivics, t \in DetailTails(MaxDetails)}

MatcherIdle ==
    /\ entries = <<>>
    /\ entries_by_comune = EmptyDict
    /\ entries_by_exact = EmptyDict
    /\ comune_key = ""
    /\ via_clean = ""
    /\ via_norm = ""
    /\ codice = ""
    /\ status = ""
    /\ path = ""
    /\ rows_done = 0

InitSeg ==
    /\ indirizzo \in Addresses
    /\ result = Res("", "", "", "", "", "", "")
    /\ first_match_pos = -1
    /\ first_civico = ""
    /\ compatto = Compact("", "", "", "")
    /\ MatcherIdle
    /\ CmpIdle
    /\ MapIdle
    /\ BuildIdle
    /\ NormIdle

\* the locals first_match_pos and first_civico when the function returns
locals_normalized(orig, norm) ==
    IF orig = "" \/ RouteGuard(norm) THEN Located(-1, "") ELSE locate(norm)

locals_at_return(ind) == locals_normalized(Strip(ind), Normalized(ind))

\* one row: the address is segmented
Dividi ==
    /\ result.esito = ""
    /\ result' = dividi_indirizzo_siatel(indirizzo)
    /\ \E loc \in {locals_at_return(indirizzo)} :
          /\ first_match_pos' = loc.first_match_pos
          /\ first_civico' = loc.first_civico
    /\ UNCHANGED <<indirizzo, compatto>>
    /\ UNCHANGED <<matcherVars, cmpVars, mapVars, buildVars, normVars>>

\* one row of the compact mode
DividiCompatto ==
    /\ compatto.esito = ""
    /\ compatto' = dividi_indirizzo_siatel_compatto(indirizzo)
    /\ UNCHANGED <<indirizzo, result, first_match_pos, first_civico>>
    /\ UNCHANGED <<matcherVars, cmpVars, mapVars, buildVars, normVars>>

NextSeg == Dividi \/ DividiCompatto

SpecSeg == InitSeg /\ [][NextSeg]_vars

(***************************************************************************)
(* Properties of dividi_indirizzo_siatel.                                  *)
(***************************************************************************)
Done == result.esito # ""

\* digits followed by at most one capital letter
IsHouseNumber(s) ==
    /\ s # ""
    /\ At(s, 1) \in Digits
    /\ \A i \in 1..Len(s) :
          \/ At(s, i) \in Digits
          \/ i = Len(s) /\ At(s, i) \in UpperSet

\* C7: the outcome is Failed exactly when street or house number is empty,
\* FullySegmented exactly when both are non-empty, the house number is a
\* genuine number (not the placeholder SNC) and the extension is empty, and
\* PartiallySegmented in every other case.
C7_OutcomeClassification ==
    Done =>
        /\ result.esito \in {FALLITA, PARZIALE, CORRETTO}
        /\ result.esito = FALLITA <=> (result.indirizzo = "" \/ result.civico = "")
        /\ result.esito = CORRETTO <=>
              /\ result.indirizzo # "" /\ result.civico # ""
              /\ IsHouseNumber(result.civico) /\ result.civico # "SNC"
              /\ result.estensione = ""

\* "VIA ROMA 12 SC A INT 3" is fully segmented
C7_Witness ==
    /\ indirizzo = "VIA ROMA 12 SC A INT 3"
    /\ result = Res("VIA ROMA", "12", "A", "3", "", "", CORRETTO)

Segmenting == Done /\ Strip(indirizzo) # "" /\ ~ RouteGuard(Normalized(indirizzo))

\* C8: the split position comes from the first of the four strategies that
\* matches, in the order explicit number marker, no-number marker, date
\* followed by a number, first bare number, wherever in the string the
\* lower-priority matches are.
C8_StrategyPriority ==
    Segmenting =>
        LET n == Normalized(indirizzo)
        IN  IF N_EXPLICIT_RE_start1(n) # -1
            THEN /\ first_match_pos = N_EXPLICIT_RE_start1(n)
                 /\ result.civico \in {"", NumberAt(n, N_EXPLICIT_RE_start1(n))}
            ELSE IF SNC_RE_start(n) # -1
            THEN /\ first_match_pos = SNC_RE_start(n)
                 /\ first_civico = "SNC"
                 /\ result.civico \in {"", "SNC"}
            ELSE IF DatePos(n) # -1
            THEN first_match_pos = DatePos(n)
            ELSE first_match_pos = GENERIC_NUMBER_RE_start(n)

\* an explicit "N 12" after an earlier bare number splits at 12
C8_Witness ==
    /\ Segmenting
    /\ GENERIC_NUMBER_RE_start(Normalized(indirizzo)) # -1
    /\ GENERIC_NUMBER_RE_start(Normalized(indirizzo))
          < N_EXPLICIT_RE_start1(Normalized(indirizzo))
    /\ first_match_pos = N_EXPLICIT_RE_start1(Normalized(indirizzo))
    /\ result.civico = "12"
    /\ result.indirizzo = "VIA 25 APRILE"

\* the length of the no-number marker matched at the 0-based position pos
SncMarkerLen(s, pos) ==
    IF StartsAt(s, pos + 1, "SNC") \/ StartsAt(s, pos + 1, "S.N") THEN 3 ELSE 2

\* C9: when the no-number marker selects the split, with text before it, the
\* street is the text before the marker, the house number is "SNC", the
\* outcome is PartiallySegmented and the marker token is consumed: the other
\* fields are those of the text after the marker.
C9_PlaceholderConsumed ==
    LET n == Normalized(indirizzo)
        p == SNC_RE_start(n)
        before == Strip(TRAILING_N_RE_sub(Strip(Slice(n, 1, p))))
        tail == Strip(From(n, p + 1 + SncMarkerLen(n, p)))
    IN  (Segmenting /\ N_EXPLICIT_RE_start1(n) = -1 /\ p # -1 /\ before # "") =>
            /\ result.indirizzo = before
            /\ result.civico = "SNC"
            /\ result.esito = PARZIALE
            /\ result = details(before, "SNC", "", tail, "SNC", Strip(indirizzo))

\* the 1-based index of the first standalone number after index e, 0 if none
NumberAfter(s, e) ==
    LET hits == {i \in (e + 1)..Len(s) : Boundary(s, i) /\ At(s, i) \in Digits}
    IN  IF hits = {} THEN 0 ELSE Min(hits)

\* C10: with no number marker and no placeholder, a date followed later by a
\* standalone number splits exactly at the start of that number: the street
\* is the text before it and the house number is its numeric head, whatever
\* character precedes the number.
C10_DateSplitsAtNumber ==
    LET n == Normalized(indirizzo)
        q == NumberAfter(n, MonthEnd(n))
    IN  (Segmenting /\ N_EXPLICIT_RE_start1(n) = -1 /\ SNC_RE_start(n) = -1
            /\ MonthEnd(n) # -1 /\ q # 0) =>
            /\ result.indirizzo = Strip(TRAILING_N_RE_sub(Strip(Slice(n, 1, q - 1))))
            /\ result.civico = NumberAt(n, q - 1)

(***************************************************************************)
(* The comparator: one call of _compare_values on two cells, or one call   *)
(* of _overall_flag on four verdicts (compute_flags of _build_flags).      *)
(***************************************************************************)
CmpTexts ==
    {"", "  ", ZeroWidth \o " " \o ZeroWidth, "12", "Roma", " ROMA", "R.O.M.A.",
     "Via Roma", "VIA", "---", "...", "S. Giovanni", "San Giovanni",
     "GARIBALDI 12", "GARIBALDI 1/3", "AAAAABAAA", "AABAAABAA"}

CmpValues == {NaN, Float("12", "0"), Float("12", "5")} \cup {Str(t) : t \in CmpTexts}

\* comuni_equivalenze with the row (S. Giovanni, San Giovanni)
AliasLookup ==
    [k \in {"SGIOVANNI", "SANGIOVANNI"} |-> "SANGIOVANNI"]

Resolvers == {NoResolver, ComuneResolver(AliasLookup)}

Preprocessors == {"", "_strip_street_prefix"}

Verdicts == {"uguale", "simile", "diverso", "vuoti", "solo_file_1", "solo_file_2"}

FlagTuples == Verdicts \X Verdicts \X Verdicts \X Verdicts

\* street cells: up to MaxTokens words, some of them street types, written
\* with and without periods, commas and apostrophes
StreetWords == {"Via", "V.", "Largo'", "L'argo", "Roma", "Mazzini,", "''"}

RECURSIVE StreetTextsUpTo(_)
StreetTextsUpTo(n) ==
    IF n = 0 THEN {""}
    ELSE StreetTextsUpTo(n - 1)
            \cup {t \o " " \o w : t \in StreetTextsUpTo(n - 1), w \in StreetWords}

StreetValues == {NaN} \cup {Str(t) : t \in StreetTextsUpTo(MaxTokens)}

InitCmp ==
    /\ CmpIdle
    /\ MatcherIdle
    /\ SegIdle
    /\ MapIdle
    /\ BuildIdle
    /\ NormIdle

NoCallYet == flag = "" /\ flag_generale = "" /\ ~ strip_called

CompareValues(va, vb, res, pre) ==
    /\ NoCallYet
    /\ value_a' = va
    /\ value_b' = vb
    /\ resolver' = res
    /\ preprocess' = pre
    /\ text_a' = processed(va, pre)
    /\ text_b' = processed(vb, pre)
    /\ flag' = _compare_values(va, vb, res, pre)
    /\ UNCHANGED <<flags, flag_generale, strip_value, strip_text, strip_called>>
    /\ UNCHANGED <<matcherVars, segVars, mapVars, buildVars, normVars>>

OverallFlag(fs) ==
    /\ NoCallYet
    /\ flags' = fs
    /\ flag_generale' = _overall_flag(fs)
    /\ UNCHANGED <<value_a, value_b, resolver, preprocess, text_a, text_b, flag>>
    /\ UNCHANGED <<strip_value, strip_text, strip_called>>
    /\ UNCHANGED <<matcherVars, segVars, mapVars, buildVars, normVars>>

\* one call of _strip_street_prefix on a street cell
StripStreetPrefix(v) ==
    /\ NoCallYet
    /\ strip_value' = v
    /\ strip_text' = _strip_street_prefix(v)
    /\ strip_called' = TRUE
    /\ UNCHANGED <<value_a, value_b, resolver, preprocess, text_a, text_b, flag, flags,
                   flag_generale>>
    /\ UNCHANGED <<matcherVars, segVars, mapVars, buildVars, normVars>>

NextCmp ==
    \/ \E va \in CmpValues, vb \in CmpValues, res \in Resolvers, pre \in Preprocessors :
          CompareValues(va, vb, res, pre)
    \/ \E fs \in FlagTuples : OverallFlag(fs)
    \/ \E v \in StreetValues : StripStreetPrefix(v)

SpecCmp == InitCmp /\ [][NextCmp]_vars

\* the row returned when the address is given back unsplit
Unsplit(orig) == Res(orig, "", "", "", "", "", FALLITA)

\* a route acronym and a kilometre marker, no number marker, no placeholder
RouteReference(n) ==
    /\ ROAD_ACRONYM_RE_search(n)
    /\ KM_RE_search(n)
    /\ N_EXPLICIT_RE_start1(n) = -1
    /\ SNC_RE_start(n) = -1

HasMarker(n) == N_EXPLICIT_RE_start1(n) # -1 \/ SNC_RE_start(n) # -1

C11_OfNormalized(orig, n) ==
    /\ RouteReference(n) =>
          /\ result = Unsplit(orig)
          /\ first_match_pos = -1 /\ first_civico = ""
    /\ HasMarker(n) =>
          /\ first_match_pos # -1 /\ first_civico # ""
          /\ result = segment_located(orig, n, Located(first_match_pos, first_civico))

\* C11: an address whose normalized text holds a route acronym and a
\* kilometre marker, and neither an explicit number marker nor a no-number
\* marker, comes back unsplit (street = the original string, every other
\* field empty, outcome Failed) and no marker strategy is run; with an
\* explicit number marker or a no-number marker the guard does not fire and
\* the address is segmented at the position the strategies find.
C11_RouteGuard ==
    (Done /\ Strip(indirizzo) # "") => C11_OfNormalized(Strip(indirizzo), Normalized(indirizzo))

\* "s.p. 3 Km 12" is a route reference and comes back as typed
C11_Witness ==
    /\ indirizzo = "s.p. 3 Km 12"
    /\ result = Unsplit("s.p. 3 Km 12")
    /\ first_match_pos = -1

\* "SS 16 KM N 12" carries a number marker and is segmented
C11_WitnessMarker ==
    /\ indirizzo = "SS 16 KM N 12"
    /\ result.civico = "12"
    /\ result.esito = CORRETTO

NoStrategyMatches(n) ==
    /\ N_EXPLICIT_RE_start1(n) = -1
    /\ SNC_RE_start(n) = -1
    /\ DatePos(n) = -1
    /\ GENERIC_NUMBER_RE_start(n) = -1

\* the text before the position found, without a trailing dangling N
BeforeOf(n, pos) == Strip(TRAILING_N_RE_sub(Strip(Slice(n, 1, pos))))

C12_OfNormalized(orig, n) ==
    (\/ NoStrategyMatches(n)
     \/ first_match_pos # -1 /\ BeforeOf(n, first_match_pos) = "")
        => result = Unsplit(orig)

\* C12: when none of the four strategies matches, or the text before the
\* position found is empty once a trailing dangling N is removed, the row
\* returned has outcome Failed, the original string as street and every
\* other field empty.
C12_UnsplitOnFailure ==
    Done => C12_OfNormalized(Strip(indirizzo), Normalized(indirizzo))

\* "N 12": the marker is found but nothing is left before it
C12_Witness ==
    /\ indirizzo = " N 12"
    /\ first_match_pos = 2
    /\ result = Unsplit("N 12")

\* "Via Roma,": no strategy matches
C12_WitnessNoMatch ==
    /\ indirizzo = "Via Roma,"
    /\ first_match_pos = -1
    /\ result = Unsplit("Via Roma,")

(***************************************************************************)
(* Properties of _compare_values and _overall_flag.                        *)
(***************************************************************************)
Compared == flag # ""

BothPresent == Compared /\ text_a # "" /\ text_b # ""

\* C13: emptiness is decided first, on the sanitized and preprocessed
\* values: both empty gives vuoti, only the first empty gives solo_file_2,
\* only the second empty gives solo_file_1, and uguale / simile / diverso
\* are returned only when both are non-empty.
C13_EmptinessFirst ==
    Compared =>
        /\ flag = "vuoti" <=> (text_a = "" /\ text_b = "")
        /\ flag = "solo_file_2" <=> (text_a = "" /\ text_b # "")
        /\ flag = "solo_file_1" <=> (text_a # "" /\ text_b = "")
        /\ flag \in {"uguale", "simile", "diverso"} <=> (text_a # "" /\ text_b # "")

\* "VIA" is empty once its prefix is stripped: only the second file has a street
C13_Witness ==
    /\ value_a = Str("VIA") /\ value_b = Str("Roma")
    /\ preprocess = "_strip_street_prefix"
    /\ text_a = "" /\ text_b = "ROMA"
    /\ flag = "solo_file_2"

\* the canonical form of a text under the resolver of the call
CanonicalForm(t) ==
    IF resolver.present /\ _normalize_text(t) \in DOMAIN resolver.lookup
    THEN resolver.lookup[_normalize_text(t)]
    ELSE _normalize_text(t)

EqualTexts ==
    \/ casefold(text_a) = casefold(text_b)
    \/ CanonicalForm(text_a) # "" /\ CanonicalForm(text_a) = CanonicalForm(text_b)

\* the similarity ratio of the case-folded texts, <<numerator, denominator>>
TextRatio == ratio(casefold(text_a), casefold(text_b))

C14_OfRatio(r) ==
    /\ flag = "uguale" <=> EqualTexts
    /\ flag = "simile" <=> (~ EqualTexts /\ 100 * r[1] >= 88 * r[2])
    /\ flag = "diverso" <=> (~ EqualTexts /\ 100 * r[1] < 88 * r[2])

\* C14: two non-empty values are uguale when they are equal ignoring case or
\* their canonical forms are equal and non-empty; otherwise simile exactly
\* when the ratio of the case-folded texts is at least 0.88, and diverso
\* below it.  Two texts whose canonical forms are both empty are not uguale
\* by the canonical-form rule.
C14_EqualSimilarDifferent == BothPresent => C14_OfRatio(TextRatio)

\* a ratio of exactly 22/25 = 0.88 is simile
C14_Witness ==
    /\ BothPresent
    /\ text_a = "GARIBALDI 12" /\ text_b = "GARIBALDI 1/3"
    /\ TextRatio = <<22, 25>>
    /\ flag = "simile"

\* "---" and "..." have empty canonical forms and are diverso
C14_WitnessEmptyNorm ==
    /\ text_a = "---" /\ text_b = "..."
    /\ flag = "diverso"

Aggregated == flag_generale # ""

HasVerdict(S) == \E i \in DOMAIN flags : flags[i] \in S

\* C15: all verdicts in {uguale, vuoti} give coincidenza; else any diverso
\* gives differenza; else any simile gives simile; else any solo_file_*
\* gives incompleto; else parziale.
C15_AggregatePriority ==
    Aggregated =>
        flag_generale =
            IF ~ HasVerdict(Verdicts \ {"uguale", "vuoti"}) THEN "coincidenza"
            ELSE IF HasVerdict({"diverso"}) THEN "differenza"
            ELSE IF HasVerdict({"simile"}) THEN "simile"
            ELSE IF HasVerdict({"solo_file_1", "solo_file_2"}) THEN "incompleto"
            ELSE "parziale"

\* a diverso field dominates a simile field and a missing side
C15_Witness ==
    /\ flags = <<"simile", "diverso", "solo_file_1", "uguale">>
    /\ flag_generale = "differenza"

\* four vuoti fields coincide
C15_WitnessEmpty ==
    /\ flags = <<"vuoti", "vuoti", "vuoti", "vuoti">>
    /\ flag_generale = "coincidenza"

\* the verdict of the same call with the two values swapped
SwappedFlag == _compare_values(value_b, value_a, resolver, preprocess)

C16_OfRatios(r_ab, r_ba, r_aa) ==
    /\ r_ab[1] * r_ba[2] = r_ba[1] * r_ab[2]
    /\ r_aa[1] = r_aa[2]
    /\ flag = "simile" => SwappedFlag # "diverso"
    /\ flag = "diverso" => SwappedFlag # "simile"

\* C16: on non-empty texts the similarity ratio is symmetric and reflexive,
\* ratio(a, b) = ratio(b, a) and ratio(a, a) = 1, so that swapping the two
\* values never turns simile into diverso or diverso into simile.
C16_SymmetricRatio ==
    BothPresent =>
        C16_OfRatios(TextRatio, ratio(casefold(text_b), casefold(text_a)),
                     ratio(casefold(text_a), casefold(text_a)))

(***************************************************************************)
(* _normalize_text applied to one string of at most MaxTextLen characters. *)
(***************************************************************************)
TextChars == {"a", "B", "7", "-", " ", "é", "ß"}

RECURSIVE TextsUpTo(_)
TextsUpTo(n) ==
    IF n = 0 THEN {""}
    ELSE TextsUpTo(n - 1) \cup {t \o c : t \in TextsUpTo(n - 1), c \in TextChars}

InitNorm ==
    /\ NormIdle
    /\ MatcherIdle
    /\ SegIdle
    /\ CmpIdle
    /\ MapIdle
    /\ BuildIdle

NormalizeText(v) ==
    /\ ~ normalize_called
    /\ norm_value' = v
    /\ norm_text' = _normalize_text(v)
    /\ normalize_called' = TRUE
    /\ UNCHANGED <<matcherVars, segVars, cmpVars, mapVars, buildVars>>

NextNorm == \E v \in TextsUpTo(MaxTextLen) : NormalizeText(v)

SpecNorm == InitNorm /\ [][NextNorm]_vars

OnlyAlnumUpper(s) == \A i \in 1..Len(s) : At(s, i) \in UpperSet \cup Digits

\* C17: _normalize_text returns a string for every string, the result holds
\* only characters of A-Z and 0-9, normalizing the result again leaves it
\* unchanged, and the empty string gives the empty string.
C17_NormalizeIdempotent ==
    normalize_called =>
        /\ OnlyAlnumUpper(norm_text)
        /\ _normalize_text(norm_text) = norm_text
        /\ norm_value = "" => norm_text = ""

\* "ß-a" becomes "SSA"
C17_Witness ==
    /\ normalize_called
    /\ norm_value = "ß-a"
    /\ norm_text = "SSA"

(***************************************************************************)
(* The alias table is loaded once from the built-in table and the table    *)
(* given by the user.                                                      *)
(***************************************************************************)
ComuneNames == {"Roma", " r.m.", "Urbe"}

\* the rows <<alias, canonical>> over the names, a row without alias and a
\* row without canonical name
TableRows ==
    {<<Str(a), Str(c)>> : a \in ComuneNames, c \in ComuneNames}
        \cup {<<Str("-"), Str("Roma")>>, <<Str("Urbe"), NaN>>}

RECURSIVE TablesUpTo(_)
TablesUpTo(n) ==
    IF n = 0 THEN {<<>>}
    ELSE TablesUpTo(n - 1)
            \cup {Append(t, r) : t \in {u \in TablesUpTo(n - 1) : Len(u) = n - 1},
                                 r \in TableRows}

InitMap ==
    /\ MapIdle
    /\ MatcherIdle
    /\ SegIdle
    /\ CmpIdle
    /\ BuildIdle
    /\ NormIdle

LoadComuneResolver(default, extra) ==
    /\ ~ loaded
    /\ default_table' = default
    /\ extra_table' = extra
    /\ mapping' = _load_comune_resolver(default, extra).lookup
    /\ loaded' = TRUE
    /\ UNCHANGED <<matcherVars, segVars, cmpVars, buildVars, normVars>>

NextMap ==
    \E default \in TablesUpTo(MaxRows), extra \in TablesUpTo(MaxRows) :
        LoadComuneResolver(default, extra)

SpecMap == InitMap /\ [][NextMap]_vars

\* the rows in merge order: the built-in table, then the table of the user
MergedRows == default_table \o extra_table

AliasOf(row) == _normalize_text(_safe_string(row[1]))
CanonicalOf(row) == _normalize_text(_safe_string(row[2]))
Usable(row) == AliasOf(row) # "" /\ CanonicalOf(row) # ""

\* C18: in the final alias table every canonical key maps to itself: for
\* every source row whose alias and canonical name are both non-empty once
\* normalized, lookup[normalize(canonical)] = normalize(canonical).
C18_CanonicalMapsToItself ==
    loaded =>
        \A i \in DOMAIN MergedRows :
            Usable(MergedRows[i]) =>
                /\ CanonicalOf(MergedRows[i]) \in DOMAIN mapping
                /\ mapping[CanonicalOf(MergedRows[i])] = CanonicalOf(MergedRows[i])

\* the rows in which the key k is the alias
AliasRows(k) == {i \in DOMAIN MergedRows : Usable(MergedRows[i]) /\ AliasOf(MergedRows[i]) = k}

\* C19: after the merge each alias key maps to the canonical name of the
\* last row, in merge order, that has this key as its alias: a row is
\* overridden only by a later row with the same alias, never by the
\* self-mapping recorded for a canonical name.
C19_LastWriterWins ==
    loaded =>
        \A k \in DOMAIN mapping :
            AliasRows(k) # {} => mapping[k] = CanonicalOf(MergedRows[Max(AliasRows(k))])

(***************************************************************************)
(* The reference table is turned into the list of entries.                 *)
(***************************************************************************)
StradarioRows ==
    {<<c, t, d, k>> : c \in {Str("S. Giovanni"), NaN},
                      t \in {Str("VIA"), NaN},
                      d \in {Str("Mazzini"), Str("Largo"), Str("-"), NaN},
                      k \in {Float("7", "0"), NaN}}

RECURSIVE StradariUpTo(_)
StradariUpTo(n) ==
    IF n = 0 THEN {<<>>}
    ELSE StradariUpTo(n - 1)
            \cup {Append(t, r) : t \in {u \in StradariUpTo(n - 1) : Len(u) = n - 1},
                                 r \in StradarioRows}

InitBuild ==
    /\ BuildIdle
    /\ MatcherIdle
    /\ SegIdle
    /\ CmpIdle
    /\ MapIdle
    /\ NormIdle

BuildStradarioEntries(rows, res) ==
    /\ build_outcome = ""
    /\ stradario_rows' = rows
    /\ stradario_resolver' = res
    /\ stradario_entries' = _build_stradario_entries(rows, res).entries
    /\ build_outcome' = _build_stradario_entries(rows, res).outcome
    /\ UNCHANGED <<matcherVars, segVars, cmpVars, mapVars, normVars>>

NextBuild ==
    \E rows \in StradariUpTo(MaxRows), res \in Resolvers : BuildStradarioEntries(rows, res)

SpecBuild == InitBuild /\ [][NextBuild]_vars

\* C20: every entry returned by _build_stradario_entries has a non-empty
\* municipality key, a non-empty code, a non-empty cleaned street text and
\* a non-empty normalized street: a row whose street is empty once the
\* street-type prefix is stripped is discarded.
C20_EntriesHaveStreet ==
    build_outcome = "returned" =>
        \A i \in DOMAIN stradario_entries :
            /\ stradario_entries[i].comune_key # ""
            /\ stradario_entries[i].codice_via # ""
            /\ stradario_entries[i].via_clean # ""
            /\ stradario_entries[i].via_norm # ""

\* the four fields of a reference row are non-empty once sanitized
CompleteRow(row) == \A f \in 1..4 : _safe_string(row[f]) # ""

\* the entries of the rows that carry all four fields
EntriesOfCompleteRows ==
    build_rows(SelectSeq(stradario_rows, CompleteRow), stradario_resolver, <<>>)

\* C21: _build_stradario_entries skips every reference row in which one of
\* the four fields (municipality, TOPONIMO, DESCRIZIONE_VIA, code) is empty
\* once sanitized, so the entries returned are those of the complete rows;
\* it raises when no row is usable and never returns an empty list.
C21_SkipsIncompleteRows ==
    /\ build_outcome = "returned" =>
          /\ stradario_entries # <<>>
          /\ stradario_entries = EntriesOfCompleteRows
    /\ build_outcome = "SystemExit" => EntriesOfCompleteRows = <<>>

(***************************************************************************)
(* Properties of _strip_street_prefix.                                     *)
(***************************************************************************)
\* the whitespace-delimited tokens of the upper-cased text, "." and ","
\* being separators
StreetTokens(text) == Split(ReplaceChars(upper(text), {".", ","}, " "))

\* a token is a street type once its trailing periods and apostrophes are removed
IsStreetType(token) == RStripChars(token, {".", "'"}) \in STREET_PREFIXES

\* the length of the longest leading run of street types
LeadingRun(tokens) ==
    Max({n \in 0..Len(tokens) : \A i \in 1..n : IsStreetType(tokens[i])})

\* the tokens after the leading run, in their order, joined by single spaces
AfterLeadingRun(tokens) == Join(SubSeq(tokens, LeadingRun(tokens) + 1, Len(tokens)))

\* C22: _strip_street_prefix removes exactly the longest leading run of
\* tokens that are street types, a token being tested once its trailing
\* periods and apostrophes (and nothing else) are removed; it stops at the
\* first other token and returns the remaining tokens in their order joined
\* by single spaces, so that street types further on are kept and a text
\* made only of street types gives the empty string.
C22_StripsLeadingStreetTypes ==
    strip_called => strip_text = AfterLeadingRun(StreetTokens(_safe_string(strip_value)))

(***************************************************************************)
(* Properties of dividi_indirizzo_siatel_compatto.                         *)
(***************************************************************************)
CompattoDone == compatto.esito # ""

\* a detail field with its marker, nothing for an empty field
Marked(marker, field) == IF field = "" THEN <<>> ELSE <<marker \o " " \o field>>

\* the non-empty details in the order staircase, unit, floor, extension
Specifics ==
    Marked("SC", result.scala) \o Marked("INT", result.interno)
        \o Marked("PI", result.piano)
        \o (IF result.estensione = "" THEN <<>> ELSE <<result.estensione>>)

\* C23: the compact result is a projection of the detailed result of the
\* same address: same street, same house number, same outcome, and its
\* specifics are the non-empty fields among staircase ("SC x"), unit
\* ("INT x"), floor ("PI x") and extension, in this order, joined by single
\* spaces; the specifics are empty exactly when the four fields are empty.
C23_CompactIsProjection ==
    (Done /\ CompattoDone) =>
        /\ compatto.indirizzo_diviso = result.indirizzo
        /\ compatto.civico_diviso = result.civico
        /\ compatto.esito = result.esito
        /\ compatto.specifica_civico_diviso = Join(Specifics)
        /\ compatto.specifica_civico_diviso = "" <=>
              (result.scala = "" /\ result.interno = "" /\ result.piano = ""
               /\ result.estensione = "")

\* "VIA ROMA 12-B PIANO 2 INT 3": unit before floor, after the suffix
C23_Witness ==
    /\ Done /\ CompattoDone
    /\ result.interno = "3" /\ result.piano = "2" /\ result.estensione = "B"
    /\ compatto = Compact("VIA ROMA", "12", "INT 3 PI 2 B", PARZIALE)

(***************************************************************************)
(* Properties of the matcher over the rows of one address table.           *)
(***************************************************************************)
\* what match returns for the row just matched on an index built afresh
\* from the entries, as the only call made on it
LoneCall ==
    match(BuildByComune(entries, EmptyDict), BuildByExact(entries, EmptyDict),
          comune_key, via_clean, via_norm)

MarkedDetails ==
    { [text |-> " SC A", field |-> "scala", token |-> "A"],
      [text |-> " INT 3", field |-> "interno", token |-> "3"],
      [text |-> " PIANO 2", field |-> "piano", token |-> "2"],
      [text |-> " P. 2", field |-> "piano", token |-> "2"],
      [text |-> " XX", field |-> "estensione", token |-> "XX"] }

\* a house number as typed, with the suffix that follows it
CivicForms ==
    { [text |-> " 12", civico |-> "12", suffix |-> ""],
      [text |-> " 12-B", civico |-> "12", suffix |-> "B"],
      [text |-> " 12/3 ", civico |-> "12", suffix |-> "3"] }

\* at most one staircase, one unit and one floor
OneOfEach(ds) ==
    \A i, j \in DOMAIN ds :
        (i # j /\ ds[i].field = ds[j].field) => ds[i].field = "estensione"

\* the tails of up to MaxDetails details, in every order
DetailLists ==
    {ds \in UNION {[1..n -> MarkedDetails] : n \in 0..MaxDetails} : OneOfEach(ds)}

RECURSIVE TextOfDetails(_)
TextOfDetails(ds) == IF ds = <<>> THEN "" ELSE Head(ds).text \o TextOfDetails(Tail(ds))

\* the token of the marker of a field, "" when the tail has no such marker
TokenOf(ds, field) ==
    IF \E i \in DOMAIN ds : ds[i].field = field
    THEN ds[CHOOSE i \in DOMAIN ds : ds[i].field = field].token
    ELSE ""

\* the words of the tail that belong to no marker, in their order
RECURSIVE Unmarked(_)
Unmarked(ds) ==
    IF ds = <<>> THEN <<>>
    ELSE (IF Head(ds).field = "estensione" THEN <<Head(ds).token>> ELSE <<>>)
            \o Unmarked(Tail(ds))

ExtensionOf(suffix, ds) ==
    Join((IF suffix = "" THEN <<>> ELSE <<suffix>>) \o Unmarked(ds))

C25_OfTail(c, ds) ==
    /\ result.indirizzo = "VIA ROMA"
    /\ result.civico = c.civico
    /\ result.scala = TokenOf(ds, "scala")
    /\ result.interno = TokenOf(ds, "interno")
    /\ result.piano = TokenOf(ds, "piano")
    /\ result.estensione = ExtensionOf(c.suffix, ds)

\* C25: after the house number and its hyphen/slash suffix, the staircase,
\* the unit and the floor are taken from the tail whatever the order of
\* their markers: each marker followed by a token gives that token as the
\* value of its field, and the extension is the suffix followed by exactly
\* the words that belong to no marker; a tail made only of markers with
\* their tokens leaves the extension to the suffix alone.
C25_DetailsInAnyOrder ==
    Done =>
        \A c \in CivicForms, ds \in DetailLists :
            indirizzo = "VIA ROMA" \o c.text \o TextOfDetails(ds) => C25_OfTail(c, ds)

\* the entries of the requested municipality, with or without a street
SameComune == {i \in DOMAIN entries : entries[i].comune_key = comune_key}

\* C26: whenever match returns the status fuzzy, the code returned is that
\* of an entry of the requested municipality whose ratio to the input is at
\* least 0.88 and strictly greater than the ratio of every other entry of
\* that municipality, in whatever order the entries were supplied.
C26_FuzzyIsUniqueMaximum ==
    status = "fuzzy" =>
        \E i \in SameComune :
            /\ entries[i].codice_via = codice
            /\ AtLeastThreshold(RatioOfEntry(i))
            /\ \A j \in SameComune \ {i} : RatLess(RatioOfEntry(j), RatioOfEntry(i))

\* three candidates at 0.875, 0.889 and 0.900: the last one is returned
C26_Witness ==
    /\ status = "fuzzy" /\ codice = "004"
    /\ Cardinality(FuzzyCandidates) = 3
    /\ \E i \in FuzzyCandidates : RatioOfEntry(i) = <<14, 16>>

\* the entries supplied in the order f[1], f[2], ...
Reordered(f) == [i \in DOMAIN entries |-> entries[f[i]]]

\* what match returns for the row just matched when the index is built from es
ResultOn(es) ==
    match(BuildByComune(es, EmptyDict), BuildByExact(es, EmptyDict),
          comune_key, via_clean, via_norm)

\* C27: the result of match does not depend on the order in which the
\* entries were supplied: for every permutation of the entries the row just
\* matched gets the same code and the same status.
C27_OrderIndependent ==
    Called =>
        \A f \in Permutations(DOMAIN entries) :
            /\ ResultOn(Reordered(f)).codice = codice
            /\ ResultOn(Reordered(f)).status = status

(***************************************************************************)
(* Properties of ComuneResolver.canonical on the table that was loaded.    *)
(***************************************************************************)
\* C28: on every alias table _load_comune_resolver builds, canonical is
\* idempotent, canonical(canonical(t)) = canonical(t) for every text t: the
\* value an alias resolves to is a fixed point of the lookup, there is no
\* chain of two or more aliases.
C28_CanonicalIdempotent ==
    (loaded /\ mapping # EmptyDict) =>
        \A t \in ComuneNames :
            canonical(mapping, canonical(mapping, t)) = canonical(mapping, t)

(***************************************************************************)
(* Properties of the aggregate over the verdicts _compare_values returns.  *)
(***************************************************************************)
\* the four verdicts in the order f[1], ..., f[4]
ReorderedFlags(f) == [i \in DOMAIN flags |-> flags[f[i]]]

\* C29: the aggregate parziale is unreachable: _compare_values returns one
\* of the six verdicts, and on every tuple of four of them _overall_flag
\* returns coincidenza, differenza, simile or incompleto, the same value for
\* every order of the four verdicts.
C29_ParzialeUnreachable ==
    /\ Compared => flag \in Verdicts
    /\ Aggregated =>
          /\ flag_generale \in {"coincidenza", "differenza", "simile", "incompleto"}
          /\ \A f \in Permutations(DOMAIN flags) :
                _overall_flag(ReorderedFlags(f)) = flag_generale

\* the only verdict that is not uguale or vuoti is solo_file_2
C29_Witness ==
    /\ flags = <<"uguale", "solo_file_2", "vuoti", "uguale">>
    /\ flag_generale = "incompleto"

(***************************************************************************)
(* Properties of the outcome of dividi_indirizzo_siatel.                   *)
(***************************************************************************)
\* a split position was found and a street is left before it
StreetAndPosition ==
    first_match_pos # -1 /\ BeforeOf(Normalized(indirizzo), first_match_pos) # ""

\* C30: in every result the outcome is Failed exactly when the house number
\* is empty; a Failed result has empty staircase, unit, floor and extension
\* and its street is the original string (empty for a blank input); once a
\* street and a split position are found the house number is not empty, so
\* the last branch of the classification ("street or house number empty")
\* is never taken.
C30_FailedIffNoHouseNumber ==
    Done =>
        /\ result.esito = FALLITA <=> result.civico = ""
        /\ result.esito = FALLITA => result = Unsplit(Strip(indirizzo))
        /\ StreetAndPosition =>
              (result.indirizzo # "" /\ result.civico # "" /\ result.esito # FALLITA)

\* "VIA ROMA SNC XX": the placeholder is the house number
C30_Witness ==
    /\ indirizzo = "VIA ROMA SNC XX"
    /\ StreetAndPosition
    /\ result = Res("VIA ROMA", "SNC", "", "", "", "XX", PARZIALE)

\* " 12 SC A": a position but no street, the address comes back unsplit
C30_WitnessFailed ==
    /\ indirizzo = " 12 SC A"
    /\ first_match_pos = 0
    /\ result = Unsplit("12 SC A")

=============================================================================
